---- MODULE Spec2Model ----
(***************************************************************************)
(* State-machine model of flick-pick's utility layer (src/lib/utils.ts):   *)
(* the formatting helpers, the device id, the debounce / throttle          *)
(* wrappers, the Prisma client singleton with its health check, statistics *)
(* and shutdown hook, safeJsonParse and the guarded localStorage accessor; *)
(* of the persisted Movie / Vote / TrendingCache tables of the Prisma      *)
(* schema; and of the design system test runner.                           *)
(*                                                                         *)
(* Each subsystem has its own specification (SpecDebounce, SpecThrottle,   *)
(* ...) over its own group of variables; the other groups stay at their    *)
(* initial value.                                                          *)
(***************************************************************************)
EXTENDS Integers, Sequences, FiniteSets, TLC

VARIABLES
    \* ---- clock shared by timers and Date.now() (milliseconds)
    now,
    \* ---- debounce (utils.ts 65-75)
    dbDelay,        \* [Wrappers -> delay]         the `delay` parameter of each wrapper
    timeoutId,      \* [Wrappers -> id | Undefined] the closure variable `timeoutId`
    timers,         \* the runtime's pending timeouts: records [id, due, w, args, call]
    nextTimerId,    \* next handle returned by setTimeout
    dbCalls,        \* [Wrappers -> Seq([at, args])]   history of wrapper calls
    dbInvoked,      \* [Wrappers -> Seq([at, args, call])] history of func invocations
    \* ---- throttle (utils.ts 78-91)
    thDelay,        \* [Wrappers -> delay]
    lastCall,       \* [Wrappers -> time]   the closure variable `lastCall`
    thCalls,        \* [Wrappers -> Seq([at, args])]
    thInvoked,      \* [Wrappers -> Seq([at, args, call])]
    \* ---- database module (utils.ts 134-176)
    nodeEnv,        \* process.env.NODE_ENV
    globalPrisma,   \* globalForPrisma.prisma: a client or Undefined
    nClients,       \* PrismaClient instances constructed so far (clients are 1..nClients)
    exported,       \* Seq(client): the `prisma` export of each evaluation of the module
    exitHandlers,   \* Seq(client): the beforeExit listeners, each closing over its `prisma`
    exitEmitted,    \* number of times the process has emitted beforeExit
    disconnects,    \* Seq(client): the $disconnect() calls made so far
    checks,         \* Seq([state, value, outcome, queries]): the healthCheck() promises
    stats,          \* the getDbStats() call: its count queries and its promise
    \* ---- safeJsonParse (utils.ts 94-100)
    jsonIn,         \* the `json` argument, a sequence of characters
    jsonFallback,   \* the `fallback` argument, a JSON value
    jsonOut,        \* <<>> before the call, then <<[threw, value]>>
    \* ---- storage (utils.ts 103-133)
    isBrowser,      \* typeof window !== 'undefined', fixed when the module loads
    localStorage,   \* [StorageKeys -> item | NoItem]: the browser's localStorage
    storageOps,     \* number of storage.* calls made
    storageLast,    \* the last storage.* call: [op, key, failed, threw, result, before]
    \* ---- persisted data model (prisma/schema.prisma: Movie, Vote)
    movies,         \* the ids of the Movie rows
    votes,          \* the Vote rows: records [id, movieId, deviceId, voteType]
    nextVoteId,     \* next generated Vote.id (cuid)
    tableOps,       \* number of write operations attempted
    tableLast,      \* the last write attempted: [op, id, movieId, deviceId, ok]
    trending,       \* the TrendingCache rows: records [id, movieId, period, rank]
    \* ---- formatRuntime (utils.ts 9-19)
    runtimeIn,      \* the `minutes` argument: <<>> for null / undefined, else <<n>>
    runtimeOut,     \* <<>> before the call, then <<the returned string>>
    \* ---- formatReleaseYear (utils.ts 22-29)
    dateIn,         \* the `date` argument, a string
    tzOffset,       \* hours the local time zone is ahead of UTC (-getTimezoneOffset() / 60)
    yearOut,        \* <<>> before the call, then <<[threw, value]>>
    \* ---- getTmdbImageUrl (utils.ts 37-40)
    imagePath,      \* the `path` argument: <<>> for null, else <<string>>
    imageSize,      \* the `size` argument: <<>> when omitted, else <<string>>
    imageOut,       \* <<>> before the call, then <<the returned string>>
    \* ---- generateDeviceId (utils.ts 43-62)
    deviceEnv,      \* <<>> or <<the environment generateDeviceId reads>>
    deviceOut,      \* <<>> before the call, then <<the returned string>>
    \* ---- DesignSystemTestRunner (__tests__/design-system/test-runner.ts)
    trPhase,        \* where the CLI run is: "running", "reporting", "resolved", "rejected"
    trResults,      \* this.results: Seq([category, passed, errors])
    trReport,       \* <<>> until generateReport builds the report, then <<report>>
    trExit          \* <<>> while the process runs, then <<the code given to process.exit>>

clockVars == <<now>>
debVars   == <<dbDelay, timeoutId, timers, nextTimerId, dbCalls, dbInvoked>>
thrVars   == <<thDelay, lastCall, thCalls, thInvoked>>
dbmVars   == <<nodeEnv, globalPrisma, nClients, exported, exitHandlers, exitEmitted,
               disconnects, checks, stats>>
jsonVars  == <<jsonIn, jsonFallback, jsonOut>>
stoVars   == <<isBrowser, localStorage, storageOps, storageLast>>
tblVars   == <<movies, votes, nextVoteId, tableOps, tableLast, trending>>
rtVars    == <<runtimeIn, runtimeOut>>
yrVars    == <<dateIn, tzOffset, yearOut>>
imgVars   == <<imagePath, imageSize, imageOut>>
devVars   == <<deviceEnv, deviceOut>>
fmtVars   == <<rtVars, yrVars, imgVars, devVars>>
runVars   == <<trPhase, trResults, trReport, trExit>>
vars      == <<clockVars, debVars, thrVars, dbmVars, jsonVars, stoVars, tblVars, fmtVars, runVars>>

(***************************************************************************)
(* Bounds of the model                                                     *)
(***************************************************************************)
MaxDelay == 2       \* delays range over 1..MaxDelay (debounce), 0..MaxDelay (throttle)
MaxTime  == 4       \* the clock stops advancing at MaxTime
MaxCalls == 3       \* wrapper calls in one behaviour, all wrappers together
MaxStart == 2       \* Date.now() when the throttle wrappers are created: 0..MaxStart
MaxEvals == 3       \* evaluations of the database module in one process (hot reloads)
MaxExits == 2       \* beforeExit emissions
MaxChecks == 2      \* healthCheck() calls
MaxCount == 2       \* getDbStats: each table holds 0..MaxCount rows
MaxJsonLen == 3     \* every text of up to MaxJsonLen characters of JsonAlphabet is an input
MaxStorageOps == 3  \* storage.get / set / remove calls in one behaviour
MaxMinutes == 130   \* formatRuntime is applied to null and to 0..MaxMinutes
MaxTableOps == 4    \* writes to the Movie / Vote tables in one behaviour
StorageQuota == 1   \* items localStorage holds before setItem throws QuotaExceededError

Wrappers  == {"w1", "w2"}       \* two wrappers made by two debounce()/throttle() calls
Args      == {"x", "y"}         \* argument lists passed to a wrapper
Undefined == 0                \* no handle / no object: real handles and clients count from 1

Last(s) == s[Len(s)]

RECURSIVE SumLen(_, _)
SumLen(f, S) ==
    IF S = {} THEN 0
    ELSE LET w == CHOOSE x \in S : TRUE IN Len(f[w]) + SumLen(f, S \ {w})

(***************************************************************************)
(* debounce                                                                *)
(***************************************************************************)
\* clearTimeout(id): drops the pending timeout with that handle, if any; a handle
\* that is undefined or already fired is ignored.
ClearTimeoutNoop(ts, id) == ts
ClearTimeoutAll(ts, id) == {}
ClearTimeout(ts, id) == {t \in ts : t.id # id}

\* setTimeout(cb, delay) at time n: the callback becomes due at n + delay.
TimerDueAtOnce(n, d) == n
TimerDue(n, d) == n + d

DebounceIdle ==
    /\ dbDelay = [w \in Wrappers |-> 1]
    /\ timeoutId = [w \in Wrappers |-> Undefined]
    /\ timers = {}
    /\ nextTimerId = 1
    /\ dbCalls = [w \in Wrappers |-> <<>>]
    /\ dbInvoked = [w \in Wrappers |-> <<>>]

\* debounce(func, delay) has been called once per wrapper; nothing has run yet.
DebounceInit ==
    /\ dbDelay \in [Wrappers -> 1..MaxDelay]
    /\ timeoutId = [w \in Wrappers |-> Undefined]
    /\ timers = {}
    /\ nextTimerId = 1
    /\ dbCalls = [w \in Wrappers |-> <<>>]
    /\ dbInvoked = [w \in Wrappers |-> <<>>]

\* A timeout whose time has come runs before the clock moves on and before any
\* other task of the event loop.
TimerPending == \E t \in timers : t.due <= now

\* The wrapper returned by debounce: clearTimeout(timeoutId); timeoutId = setTimeout(...)
DebouncedCall(w, a) ==
    /\ ~TimerPending
    /\ SumLen(dbCalls, Wrappers) < MaxCalls
    /\ timers' = ClearTimeout(timers, timeoutId[w]) \cup
                   {[id |-> nextTimerId, due |-> TimerDue(now, dbDelay[w]), w |-> w,
                     args |-> a, call |-> Len(dbCalls[w]) + 1]}
    /\ timeoutId' = [timeoutId EXCEPT ![w] = nextTimerId]
    /\ nextTimerId' = nextTimerId + 1
    /\ dbCalls' = [dbCalls EXCEPT ![w] = Append(@, [at |-> now, args |-> a])]
    /\ UNCHANGED <<now, dbDelay, dbInvoked, thrVars, dbmVars, jsonVars, stoVars, tblVars, fmtVars, runVars>>

\* The timeout callback () => func(..._args)
TimerFire(t) ==
    /\ t \in timers
    /\ t.due <= now
    /\ timers' = timers \ {t}
    /\ dbInvoked' = [dbInvoked EXCEPT
                       ![t.w] = Append(@, [at |-> now, args |-> t.args, call |-> t.call])]
    /\ UNCHANGED <<now, dbDelay, timeoutId, nextTimerId, dbCalls, thrVars, dbmVars, jsonVars, stoVars, tblVars, fmtVars, runVars>>

\* One millisecond passes.
DebounceTick ==
    /\ ~TimerPending
    /\ now < MaxTime
    /\ now' = now + 1
    /\ UNCHANGED <<debVars, thrVars, dbmVars, jsonVars, stoVars, tblVars, fmtVars, runVars>>

(***************************************************************************)
(* throttle                                                                *)
(***************************************************************************)
\* if (now - lastCall >= delay)
ThrottleAllowsStrict(n, last, d) == n - last > d
ThrottleAllows(n, last, d) == n - last >= d

\* lastCall = now happens inside the if: a dropped call leaves lastCall alone
ThrottleLastCallAlways(allowed, n, last) == n
ThrottleLastCall(allowed, n, last) == IF allowed THEN n ELSE last

ThrottleIdle ==
    /\ thDelay = [w \in Wrappers |-> 0]
    /\ lastCall = [w \in Wrappers |-> 0]
    /\ thCalls = [w \in Wrappers |-> <<>>]
    /\ thInvoked = [w \in Wrappers |-> <<>>]

\* throttle(func, delay) has been called once per wrapper: let lastCall = 0
ThrottleInit ==
    /\ thDelay \in [Wrappers -> 0..MaxDelay]
    /\ lastCall = [w \in Wrappers |-> 0]
    /\ thCalls = [w \in Wrappers |-> <<>>]
    /\ thInvoked = [w \in Wrappers |-> <<>>]

\* The wrapper returned by throttle.
ThrottledCall(w, a) ==
    /\ SumLen(thCalls, Wrappers) < MaxCalls
    /\ thCalls' = [thCalls EXCEPT ![w] = Append(@, [at |-> now, args |-> a])]
    /\ LET allowed == ThrottleAllows(now, lastCall[w], thDelay[w]) IN
        /\ lastCall' = [lastCall EXCEPT ![w] = ThrottleLastCall(allowed, now, @)]
        /\ thInvoked' = IF allowed
                        THEN [thInvoked EXCEPT ![w] =
                                Append(@, [at |-> now, args |-> a, call |-> Len(thCalls[w]) + 1])]
                        ELSE thInvoked
    /\ UNCHANGED <<now, thDelay, debVars, dbmVars, jsonVars, stoVars, tblVars, fmtVars, runVars>>

ThrottleTick ==
    /\ now < MaxStart + MaxTime
    /\ now' = now + 1
    /\ UNCHANGED <<debVars, thrVars, dbmVars, jsonVars, stoVars, tblVars, fmtVars, runVars>>

(***************************************************************************)
(* Database module: Prisma client singleton, healthCheck, shutdown hook    *)
(***************************************************************************)
NodeEnvs == {"development", "test", "production"}

Range(s) == {s[i] : i \in DOMAIN s}

\* if (process.env.NODE_ENV !== 'production') globalForPrisma.prisma = prisma
CachesOnGlobalInverted(env) == env = "production"
CachesOnGlobalAlways(env) == TRUE
CachesOnGlobal(env) == env # "production"

\* The $disconnect() calls one beforeExit emission makes: every registered listener
\* runs `await prisma.$disconnect()` on the client it closed over.
DisconnectCallsFirstOnly(handlers) ==
    IF handlers = <<>> THEN <<>> ELSE <<handlers[1]>>
DisconnectCalls(handlers) == handlers

\* What the healthCheck() promise settles to once the probe has settled:
\* try { await ...; return true } catch { return false }
HealthSettledRethrow(outcome) ==
    IF outcome = "ok" THEN [state |-> "resolved", value |-> TRUE]
    ELSE [state |-> "rejected", value |-> FALSE]
HealthSettled(outcome) == [state |-> "resolved", value |-> outcome = "ok"]

\* getDbStats (utils.ts 159-171).  The three count queries, in the order of the
\* array given to Promise.all.
StatsQueries == <<"movie", "vote", "genre">>
StatsTables == {StatsQueries[i] : i \in DOMAIN StatsQueries}

NoStatsCall ==
    [state   |-> "none",                           \* the promise getDbStats returned
     tables  |-> [q \in StatsTables |-> 0],        \* rows in each table
     queries |-> [q \in StatsTables |-> "none"],   \* none / pending / ok / error
     values  |-> [q \in StatsTables |-> 0],        \* what each fulfilled query gave
     order   |-> <<>>,                             \* the queries in order of settling
     result  |-> <<>>]                             \* <<the resolved object>>

\* Promise.all gives the values in the order of its argument, not of completion
PromiseAllByCompletion(values, order) == [i \in DOMAIN StatsQueries |-> values[order[i]]]
PromiseAllValues(values, order) == [i \in DOMAIN StatsQueries |-> values[StatsQueries[i]]]

\* return { movies: movieCount, votes: voteCount, genres: genreCount }
StatsObject(counts) == [movies |-> counts[1], votes |-> counts[2], genres |-> counts[3]]

DbModuleIdle ==
    /\ nodeEnv = "test"
    /\ globalPrisma = Undefined
    /\ nClients = 0
    /\ exported = <<>>
    /\ exitHandlers = <<>>
    /\ exitEmitted = 0
    /\ disconnects = <<>>
    /\ checks = <<>>
    /\ stats = NoStatsCall

\* A fresh process: nothing on globalThis, the module not yet evaluated.
DbModuleInit ==
    /\ nodeEnv \in NodeEnvs
    /\ globalPrisma = Undefined
    /\ nClients = 0
    /\ exported = <<>>
    /\ exitHandlers = <<>>
    /\ exitEmitted = 0
    /\ disconnects = <<>>
    /\ checks = <<>>
    /\ stats = NoStatsCall

\* One evaluation of the module (first import, or a hot reload): lines 136-147 and
\* the process.on('beforeExit', ...) registration of lines 174-176.
EvaluateDbModule ==
    /\ Len(exported) < MaxEvals
    /\ exitEmitted = 0
    /\ LET prisma == IF globalPrisma # Undefined THEN globalPrisma ELSE nClients + 1 IN
        /\ nClients' = IF globalPrisma # Undefined THEN nClients ELSE nClients + 1
        /\ globalPrisma' = IF CachesOnGlobal(nodeEnv) THEN prisma ELSE globalPrisma
        /\ exported' = Append(exported, prisma)
        /\ exitHandlers' = Append(exitHandlers, prisma)
    /\ UNCHANGED <<nodeEnv, exitEmitted, disconnects, checks, stats, clockVars, debVars, thrVars, jsonVars, stoVars, tblVars, fmtVars, runVars>>

\* The process emits beforeExit: the listeners run in registration order.
BeforeExit ==
    /\ exitEmitted < MaxExits
    /\ exitEmitted' = exitEmitted + 1
    /\ disconnects' = disconnects \o DisconnectCalls(exitHandlers)
    /\ UNCHANGED <<nodeEnv, globalPrisma, nClients, exported, exitHandlers, checks, stats,
                   clockVars, debVars, thrVars, jsonVars, stoVars, tblVars, fmtVars, runVars>>

\* healthCheck() is called: it issues prisma.$queryRaw`SELECT 1`, which either
\* throws at once (caught by the try) or returns a promise that is awaited.
HealthCheckCall(throws) ==
    /\ exported # <<>>
    /\ Len(checks) < MaxChecks
    /\ checks' = Append(checks,
           IF throws
           THEN HealthSettled("threw") @@ [outcome |-> "threw", queries |-> 1]
           ELSE [state |-> "pending", value |-> FALSE, outcome |-> "none", queries |-> 1])
    /\ UNCHANGED <<nodeEnv, globalPrisma, nClients, exported, exitHandlers, exitEmitted,
                   disconnects, stats, clockVars, debVars, thrVars, jsonVars, stoVars, tblVars, fmtVars, runVars>>

\* The probe query settles: fulfilled ("ok") or rejected by the driver ("error").
HealthCheckSettle(i, outcome) ==
    /\ i \in DOMAIN checks
    /\ checks[i].state = "pending"
    /\ checks' = [checks EXCEPT
           ![i] = HealthSettled(outcome) @@ [outcome |-> outcome, queries |-> @.queries]]
    /\ UNCHANGED <<nodeEnv, globalPrisma, nClients, exported, exitHandlers, exitEmitted,
                   disconnects, stats, clockVars, debVars, thrVars, jsonVars, stoVars, tblVars, fmtVars, runVars>>

\* getDbStats() is called: the three count() calls are made one after another
\* before anything is awaited.  thrower = 0: each returns a promise; thrower = k:
\* the k-th call throws, the later ones are never made and the async function
\* rejects.
GetDbStatsCall(tables, thrower) ==
    /\ exported # <<>>
    /\ stats.state = "none"
    /\ stats' = [stats EXCEPT
          !.tables = tables,
          !.queries = [q \in StatsTables |->
                          IF \E i \in DOMAIN StatsQueries :
                                StatsQueries[i] = q /\ (thrower = 0 \/ i < thrower)
                          THEN "pending" ELSE "none"],
          !.state = IF thrower = 0 THEN "pending" ELSE "rejected"]
    /\ UNCHANGED <<nodeEnv, globalPrisma, nClients, exported, exitHandlers, exitEmitted,
                   disconnects, checks, clockVars, debVars, thrVars, jsonVars, stoVars,
                   tblVars, fmtVars, runVars>>

\* One count query settles; Promise.all, and with it the awaiting function, reject
\* on the first rejection and resolve when the last query is fulfilled.
StatsQuerySettle(q, outcome) ==
    /\ stats.queries[q] = "pending"
    /\ LET queries == [stats.queries EXCEPT ![q] = outcome]
           values  == [stats.values EXCEPT ![q] = IF outcome = "ok" THEN stats.tables[q] ELSE 0]
           order   == Append(stats.order, q)
           allOk   == \A r \in StatsTables : queries[r] = "ok"
       IN  stats' = [stats EXCEPT
              !.queries = queries,
              !.values = values,
              !.order = order,
              !.state = IF stats.state # "pending" THEN stats.state
                        ELSE IF outcome = "error" THEN "rejected"
                        ELSE IF allOk THEN "resolved" ELSE "pending",
              !.result = IF stats.state = "pending" /\ allOk
                         THEN <<StatsObject(PromiseAllValues(values, order))>>
                         ELSE stats.result]
    /\ UNCHANGED <<nodeEnv, globalPrisma, nClients, exported, exitHandlers, exitEmitted,
                   disconnects, checks, clockVars, debVars, thrVars, jsonVars, stoVars,
                   tblVars, fmtVars, runVars>>

(***************************************************************************)
(* safeJsonParse                                                           *)
(*                                                                         *)
(* JSON.parse is modelled by a recursive-descent parser of the JSON        *)
(* grammar for texts without objects, escapes, fractions and '+': white    *)
(* space, null / true / false, numbers with an optional exponent, strings  *)
(* and arrays.  A text is a sequence of one-character strings.             *)
(***************************************************************************)
\* JSON values, one record shape for all of them so that any two compare.
NullV    == [t |-> "null", b |-> FALSE, n |-> <<0, 0, 0>>, s |-> <<>>, a |-> <<>>]
BoolV(x) == [t |-> "bool", b |-> x, n |-> <<0, 0, 0>>, s |-> <<>>, a |-> <<>>]
\* a number is <<sign, mantissa, exponent>>: sign * mantissa * 10^exponent, the
\* mantissa without trailing zeros
NumV(x)  == [t |-> "num", b |-> FALSE, n |-> x, s |-> <<>>, a |-> <<>>]
StrV(x)  == [t |-> "str", b |-> FALSE, n |-> <<0, 0, 0>>, s |-> x, a |-> <<>>]
ArrV(x)  == [t |-> "arr", b |-> FALSE, n |-> <<0, 0, 0>>, s |-> <<>>, a |-> x]

\* JavaScript's falsy values among the JSON values: null, false, 0, -0 and "".
Falsy(v) ==
    \/ v.t = "null"
    \/ v.t = "bool" /\ ~v.b
    \/ v.t = "num" /\ v.n[2] = 0
    \/ v.t = "str" /\ v.s = <<>>

Digits == {"0", "1", "2", "3", "4", "5", "6", "7", "8", "9"}
DigitVal(c) == CASE c = "0" -> 0 [] c = "1" -> 1 [] c = "2" -> 2 [] c = "3" -> 3
                 [] c = "4" -> 4 [] c = "5" -> 5 [] c = "6" -> 6 [] c = "7" -> 7
                 [] c = "8" -> 8 [] c = "9" -> 9

ParseFail == [ok |-> FALSE, v |-> NullV, next |-> 0]
ParseOk(v, next) == [ok |-> TRUE, v |-> v, next |-> next]

At(s, i) == IF i \in DOMAIN s THEN s[i] ELSE "EOF"

\* the first position at or after i that holds no white space
RECURSIVE SkipWs(_, _)
SkipWs(s, i) == IF At(s, i) = " " THEN SkipWs(s, i + 1) ELSE i

\* the first position at or after i that holds no digit
RECURSIVE DigitsEnd(_, _)
DigitsEnd(s, i) == IF At(s, i) \in Digits THEN DigitsEnd(s, i + 1) ELSE i

\* the number written by the digits s[i..j-1]
RECURSIVE DigitsVal(_, _, _)
DigitsVal(s, i, j) == IF j <= i THEN 0 ELSE DigitsVal(s, i, j - 1) * 10 + DigitVal(s[j - 1])

\* <<mantissa, exponent>> with the trailing zeros of the mantissa moved to the exponent
RECURSIVE Normal(_, _)
Normal(m, e) ==
    IF m = 0 THEN <<0, 0>>
    ELSE IF m % 10 = 0 THEN Normal(m \div 10, e + 1) ELSE <<m, e>>

HasPrefix(s, i, word) ==
    /\ i + Len(word) - 1 <= Len(s)
    /\ \A k \in DOMAIN word : s[i + k - 1] = word[k]

\* number = [-] int [ e [-] digits ],  int = 0 | (1-9) digits
ParseNumber(s, i) ==
    LET sign == IF At(s, i) = "-" THEN -1 ELSE 1
        i0   == IF At(s, i) = "-" THEN i + 1 ELSE i
        i1   == DigitsEnd(s, i0)
    IN  IF i1 = i0 \/ (s[i0] = "0" /\ i1 > i0 + 1) THEN ParseFail
        ELSE IF At(s, i1) \in {"e", "E"}
        THEN LET esign == IF At(s, i1 + 1) = "-" THEN -1 ELSE 1
                 e0    == IF At(s, i1 + 1) = "-" THEN i1 + 2 ELSE i1 + 1
                 e1    == DigitsEnd(s, e0)
             IN  IF e1 = e0 THEN ParseFail
                 ELSE LET me == Normal(DigitsVal(s, i0, i1), esign * DigitsVal(s, e0, e1))
                      IN  ParseOk(NumV(<<sign, me[1], me[2]>>), e1)
        ELSE LET me == Normal(DigitsVal(s, i0, i1), 0)
             IN  ParseOk(NumV(<<sign, me[1], me[2]>>), i1)

\* the position of the closing quote of the string whose first character is at i,
\* or 0 when the text ends first
RECURSIVE StringEnd(_, _)
StringEnd(s, i) ==
    IF i > Len(s) THEN 0
    ELSE IF s[i] = "\"" THEN i ELSE StringEnd(s, i + 1)

RECURSIVE ParseValue(_, _), ParseElements(_, _, _)
\* the value that starts at position i (white space already skipped)
ParseValue(s, i) ==
    LET c == At(s, i) IN
    CASE c = "n" -> IF HasPrefix(s, i, <<"n", "u", "l", "l">>)
                    THEN ParseOk(NullV, i + 4) ELSE ParseFail
      [] c = "t" -> IF HasPrefix(s, i, <<"t", "r", "u", "e">>)
                    THEN ParseOk(BoolV(TRUE), i + 4) ELSE ParseFail
      [] c = "f" -> IF HasPrefix(s, i, <<"f", "a", "l", "s", "e">>)
                    THEN ParseOk(BoolV(FALSE), i + 5) ELSE ParseFail
      [] c = "\"" -> LET j == StringEnd(s, i + 1)
                     IN  IF j = 0 THEN ParseFail
                         ELSE ParseOk(StrV(SubSeq(s, i + 1, j - 1)), j + 1)
      [] c = "[" -> LET j == SkipWs(s, i + 1)
                    IN  IF At(s, j) = "]" THEN ParseOk(ArrV(<<>>), j + 1)
                        ELSE ParseElements(s, j, <<>>)
      [] c = "-" \/ c \in Digits -> ParseNumber(s, i)
      [] OTHER -> ParseFail

\* the elements of an array from position i on, `acc` the ones already read
ParseElements(s, i, acc) ==
    LET r == ParseValue(s, i) IN
    IF ~r.ok THEN ParseFail
    ELSE LET j == SkipWs(s, r.next) IN
         IF At(s, j) = "]" THEN ParseOk(ArrV(Append(acc, r.v)), j + 1)
         ELSE IF At(s, j) = "," THEN ParseElements(s, SkipWs(s, j + 1), Append(acc, r.v))
         ELSE ParseFail

\* JSON.parse(text): ok = FALSE stands for the SyntaxError it throws
JsonParse(s) ==
    LET r == ParseValue(s, SkipWs(s, 1)) IN
    IF r.ok /\ SkipWs(s, r.next) = Len(s) + 1 THEN r ELSE ParseFail

\* try { return JSON.parse(json) } catch { return fallback }
SafeJsonParseOr(json, fallback) ==
    LET r == JsonParse(json) IN
    IF r.ok /\ ~Falsy(r.v) THEN [threw |-> FALSE, value |-> r.v]
    ELSE [threw |-> FALSE, value |-> fallback]
SafeJsonParse(json, fallback) ==
    LET r == JsonParse(json) IN
    IF r.ok THEN [threw |-> FALSE, value |-> r.v]
    ELSE [threw |-> FALSE, value |-> fallback]

JsonAlphabet == {"0", "1", "-", "e", "[", "]", ",", " ", "\""}

RECURSIVE Texts(_, _)
Texts(A, n) ==
    IF n = 0 THEN {<<>>}
    ELSE LET shorter == Texts(A, n - 1)
         IN  shorter \cup {Append(t, c) : t \in {u \in shorter : Len(u) = n - 1}, c \in A}

\* texts with the literals, which the short texts cannot spell
JsonLiteralTexts ==
    { <<"n", "u", "l", "l">>, <<"t", "r", "u", "e">>, <<"f", "a", "l", "s", "e">>,
      <<"n", "u", "l">>, <<"t", "r", "u", "e", "e">>, <<"f", "a", "l", "s">>,
      <<" ", "n", "u", "l", "l", " ">>, <<"n", "u", "l", "l", ",">>,
      <<"[", "n", "u", "l", "l", "]">>, <<"[", "t", "r", "u", "e", ",", "0", "]">>,
      <<"[", "f", "a", "l", "s", "e", ",", "]">>, <<"quote", "n", "\"">>,
      <<"2", "0", "e", "-", "1">>, <<"0", "2">>, <<"9", "0", "0">> }

JsonInputs == Texts(JsonAlphabet, MaxJsonLen) \cup JsonLiteralTexts

JsonFallbacks == {NullV, BoolV(TRUE), StrV(<<"f", "b">>), NumV(<<1, 7, 0>>)}

JsonIdle ==
    /\ jsonIn = <<>>
    /\ jsonFallback = NullV
    /\ jsonOut = <<>>

JsonInit ==
    /\ jsonIn \in JsonInputs
    /\ jsonFallback \in JsonFallbacks
    /\ jsonOut = <<>>

SafeJsonParseCall ==
    /\ jsonOut = <<>>
    /\ jsonOut' = <<SafeJsonParse(jsonIn, jsonFallback)>>
    /\ UNCHANGED <<jsonIn, jsonFallback, clockVars, debVars, thrVars, dbmVars, stoVars, tblVars, fmtVars, runVars>>

(***************************************************************************)
(* storage: the guarded localStorage accessor                              *)
(***************************************************************************)
StorageKeys   == {"k1", "k2"}
StorageValues == {"a", "b"}
NoItem        == "<null>"      \* JavaScript's null: what getItem returns for a missing key

StoredCount(ls) == Cardinality({k \in StorageKeys : ls[k] # NoItem})

\* localStorage.setItem(key, value) throws when the browser refuses access (`denied`)
\* or when a new item would exceed the quota.
SetItemThrows(ls, key, denied) ==
    denied \/ (ls[key] = NoItem /\ StoredCount(ls) >= StorageQuota)

\* The outcome of each accessor: whether the call threw, what it returned, and the
\* localStorage it left.  `failed` says that the localStorage operation threw.
\* get: if (!isBrowser) return null; try { return localStorage.getItem(key) } catch { return null }
StorageGetUnguarded(browser, ls, key, failed) ==
    [threw |-> failed, result |-> IF failed THEN NoItem ELSE ls[key], ls |-> ls]
StorageGet(browser, ls, key, failed) ==
    IF ~browser THEN [threw |-> FALSE, result |-> NoItem, ls |-> ls]
    ELSE IF failed THEN [threw |-> FALSE, result |-> NoItem, ls |-> ls]
    ELSE [threw |-> FALSE, result |-> ls[key], ls |-> ls]

\* set: if (!isBrowser) return; try { localStorage.setItem(key, value) } catch { }
StorageSetUnguarded(browser, ls, key, value, failed) ==
    IF failed THEN [threw |-> FALSE, result |-> "undefined", ls |-> ls]
    ELSE [threw |-> FALSE, result |-> "undefined", ls |-> [ls EXCEPT ![key] = value]]
StorageSet(browser, ls, key, value, failed) ==
    IF ~browser THEN [threw |-> FALSE, result |-> "undefined", ls |-> ls]
    ELSE IF failed THEN [threw |-> FALSE, result |-> "undefined", ls |-> ls]
    ELSE [threw |-> FALSE, result |-> "undefined", ls |-> [ls EXCEPT ![key] = value]]

\* remove: if (!isBrowser) return; try { localStorage.removeItem(key) } catch { }
StorageRemove(browser, ls, key, failed) ==
    IF ~browser THEN [threw |-> FALSE, result |-> "undefined", ls |-> ls]
    ELSE IF failed THEN [threw |-> FALSE, result |-> "undefined", ls |-> ls]
    ELSE [threw |-> FALSE, result |-> "undefined", ls |-> [ls EXCEPT ![key] = NoItem]]

NoStorageCall ==
    [op |-> "none", key |-> "k1", failed |-> FALSE, threw |-> FALSE, result |-> NoItem,
     before |-> NoItem]

StorageIdle ==
    /\ isBrowser = FALSE
    /\ localStorage = [k \in StorageKeys |-> NoItem]
    /\ storageOps = 0
    /\ storageLast = NoStorageCall

StorageInit ==
    /\ isBrowser \in BOOLEAN
    /\ localStorage \in {ls \in [StorageKeys -> StorageValues \cup {NoItem}] :
                            StoredCount(ls) <= StorageQuota}
    /\ storageOps = 0
    /\ storageLast = NoStorageCall

StorageCallDone(op, key, failed, out) ==
    /\ storageOps < MaxStorageOps
    /\ storageOps' = storageOps + 1
    /\ localStorage' = out.ls
    /\ storageLast' = [op |-> op, key |-> key, failed |-> failed, threw |-> out.threw,
                       result |-> out.result, before |-> localStorage[key]]
    /\ UNCHANGED <<isBrowser, clockVars, debVars, thrVars, dbmVars, jsonVars, tblVars, fmtVars, runVars>>

StorageGetCall(key, denied) ==
    StorageCallDone("get", key, denied, StorageGet(isBrowser, localStorage, key, denied))

StorageSetCall(key, value, denied) ==
    LET failed == SetItemThrows(localStorage, key, denied)
    IN  StorageCallDone("set", key, failed,
                        StorageSet(isBrowser, localStorage, key, value, failed))

StorageRemoveCall(key, denied) ==
    StorageCallDone("remove", key, denied,
                    StorageRemove(isBrowser, localStorage, key, denied))

(***************************************************************************)
(* Persisted data model: the Movie and Vote tables.                        *)
(* The schema file is not among the sources; its declarations are taken    *)
(* from the specification and from the assertions of prisma-schema.test.ts *)
(* (@@unique([movieId, deviceId]); movie relation with onDelete: Cascade;  *)
(* voteType a plain String column; TrendingCache with                      *)
(* @@unique([movieId, period]) and no relation to Movie).                  *)
(***************************************************************************)
MovieIds  == {"m1", "m2"}
DeviceIds == {"d1", "d2"}
VOTE_TYPES == {"upvote", "skip", "not_seen"}
\* what a client may send as voteType: the column is a String
VoteTypeStrings == VOTE_TYPES \cup {"like"}

\* @@unique([movieId, deviceId]): another row already holds the pair
UniqueViolationNever(vs, id, m, d) == FALSE
UniqueViolation(vs, id, m, d) ==
    \E v \in vs : v.id # id /\ v.movieId = m /\ v.deviceId = d

\* movie Movie @relation(fields: [movieId], references: [id]): the movie must exist
ForeignKeyViolation(ms, m) == m \notin ms

\* onDelete: Cascade
CascadeDeleteNone(vs, m) == vs
CascadeDelete(vs, m) == {v \in vs : v.movieId # m}

TablesIdle ==
    /\ movies = {}
    /\ votes = {}
    /\ trending = {}
    /\ nextVoteId = 1
    /\ tableOps = 0
    /\ tableLast = [op |-> "none", id |-> 0, movieId |-> "m1", deviceId |-> "d1", ok |-> TRUE]

TablesInit ==
    /\ movies \in SUBSET MovieIds
    /\ votes = {}
    /\ trending = {}
    /\ nextVoteId = 1
    /\ tableOps = 0
    /\ tableLast = [op |-> "none", id |-> 0, movieId |-> "m1", deviceId |-> "d1", ok |-> TRUE]

TableWrite(op, id, m, d, ok) ==
    /\ tableOps < MaxTableOps
    /\ tableOps' = tableOps + 1
    /\ tableLast' = [op |-> op, id |-> id, movieId |-> m, deviceId |-> d, ok |-> ok]
    /\ UNCHANGED <<clockVars, debVars, thrVars, dbmVars, jsonVars, stoVars, fmtVars, runVars>>

MovieCreate(m) ==
    /\ m \notin movies
    /\ movies' = movies \cup {m}
    /\ TableWrite("movieCreate", 0, m, "d1", TRUE)
    /\ UNCHANGED <<votes, nextVoteId, trending>>

MovieDelete(m) ==
    /\ m \in movies
    /\ movies' = movies \ {m}
    /\ votes' = CascadeDelete(votes, m)
    /\ TableWrite("movieDelete", 0, m, "d1", TRUE)
    /\ UNCHANGED <<nextVoteId, trending>>

\* INSERT of a Vote row: refused when a constraint is violated
VoteCreate(m, d, t) ==
    LET ok == ~ForeignKeyViolation(movies, m) /\ ~UniqueViolation(votes, nextVoteId, m, d)
    IN  /\ votes' = IF ok
                    THEN votes \cup {[id |-> nextVoteId, movieId |-> m, deviceId |-> d,
                                      voteType |-> t]}
                    ELSE votes
        /\ nextVoteId' = IF ok THEN nextVoteId + 1 ELSE nextVoteId
        /\ TableWrite("voteCreate", nextVoteId, m, d, ok)
        /\ UNCHANGED <<movies, trending>>

\* UPDATE of a Vote row, any of its columns: refused when a constraint is violated
VoteUpdate(v, m, d, t) ==
    LET ok == ~ForeignKeyViolation(movies, m) /\ ~UniqueViolation(votes, v.id, m, d)
    IN  /\ v \in votes
        /\ votes' = IF ok
                    THEN (votes \ {v}) \cup {[id |-> v.id, movieId |-> m, deviceId |-> d,
                                              voteType |-> t]}
                    ELSE votes
        /\ TableWrite("voteUpdate", v.id, m, d, ok)
        /\ UNCHANGED <<movies, nextVoteId, trending>>

VoteDelete(v) ==
    /\ v \in votes
    /\ votes' = votes \ {v}
    /\ TableWrite("voteDelete", v.id, v.movieId, v.deviceId, TRUE)
    /\ UNCHANGED <<movies, nextVoteId, trending>>

\* TrendingCache rows: period is a String column documented as daily | weekly | monthly
TrendingPeriods == {"daily", "weekly", "monthly"}
TrendingRanks == {1, 2}

\* @@unique([movieId, period]): another row already holds the pair
TrendingUniqueViolationNever(rows, id, m, p) == FALSE
TrendingUniqueViolation(rows, id, m, p) ==
    \E r \in rows : r.id # id /\ r.movieId = m /\ r.period = p

\* id String @id @default(cuid()): an identifier no stored row has
FreshTrendingId(rows) ==
    CHOOSE i \in 1..(Cardinality(rows) + 1) : \A r \in rows : r.id # i

\* INSERT of a TrendingCache row: refused when the unique constraint is violated
TrendingCreate(m, p, k) ==
    LET id == FreshTrendingId(trending)
        ok == ~TrendingUniqueViolation(trending, id, m, p)
    IN  /\ trending' = IF ok
                       THEN trending \cup {[id |-> id, movieId |-> m, period |-> p, rank |-> k]}
                       ELSE trending
        /\ TableWrite("trendingCreate", id, m, "d1", ok)
        /\ UNCHANGED <<movies, votes, nextVoteId>>

\* recomputation of one (movie, period): upsert on the unique key
TrendingRecompute(m, p, k) ==
    LET old == {r \in trending : r.movieId = m /\ r.period = p}
        id  == IF old = {} THEN FreshTrendingId(trending) ELSE (CHOOSE r \in old : TRUE).id
    IN  /\ trending' = (trending \ old) \cup {[id |-> id, movieId |-> m, period |-> p, rank |-> k]}
        /\ TableWrite("trendingRecompute", id, m, "d1", TRUE)
        /\ UNCHANGED <<movies, votes, nextVoteId>>

\* UPDATE of a TrendingCache row, any of its columns: refused when the unique
\* constraint is violated
TrendingUpdate(r, m, p, k) ==
    LET ok == ~TrendingUniqueViolation(trending, r.id, m, p)
    IN  /\ r \in trending
        /\ trending' = IF ok
                       THEN (trending \ {r}) \cup
                            {[id |-> r.id, movieId |-> m, period |-> p, rank |-> k]}
                       ELSE trending
        /\ TableWrite("trendingUpdate", r.id, m, "d1", ok)
        /\ UNCHANGED <<movies, votes, nextVoteId>>

TrendingDelete(r) ==
    /\ r \in trending
    /\ trending' = trending \ {r}
    /\ TableWrite("trendingDelete", r.id, r.movieId, "d1", TRUE)
    /\ UNCHANGED <<movies, votes, nextVoteId>>

(***************************************************************************)
(* Strings are sequences of one-character strings.                         *)
(***************************************************************************)
DigitChar(d) == CASE d = 0 -> "0" [] d = 1 -> "1" [] d = 2 -> "2" [] d = 3 -> "3"
                  [] d = 4 -> "4" [] d = 5 -> "5" [] d = 6 -> "6" [] d = 7 -> "7"
                  [] d = 8 -> "8" [] d = 9 -> "9"

\* Number.prototype.toString() of an integer, as `${n}` and n.toString() give it
RECURSIVE NatToString(_)
NatToString(n) ==
    IF n < 10 THEN <<DigitChar(n)>> ELSE Append(NatToString(n \div 10), DigitChar(n % 10))
IntToString(n) == IF n < 0 THEN <<"-">> \o NatToString(-n) ELSE NatToString(n)

UnknownStr == <<"U", "n", "k", "n", "o", "w", "n">>

(***************************************************************************)
(* formatRuntime                                                           *)
(***************************************************************************)
\* if (!minutes) return 'Unknown'; hours = floor(minutes / 60); remaining = minutes % 60;
\* `${remaining}m` | `${hours}h` | `${hours}h ${remaining}m`
FormatRuntimeNoHourCase(minutes) ==
    IF minutes = <<>> \/ minutes[1] = 0 THEN UnknownStr
    ELSE LET hours            == minutes[1] \div 60
             remainingMinutes == minutes[1] % 60
         IN  IF remainingMinutes = 0 THEN NatToString(hours) \o <<"h">>
             ELSE NatToString(hours) \o <<"h", " ">> \o NatToString(remainingMinutes) \o <<"m">>
FormatRuntime(minutes) ==
    IF minutes = <<>> \/ minutes[1] = 0 THEN UnknownStr
    ELSE LET hours            == minutes[1] \div 60
             remainingMinutes == minutes[1] % 60
         IN  IF hours = 0 THEN NatToString(remainingMinutes) \o <<"m">>
             ELSE IF remainingMinutes = 0 THEN NatToString(hours) \o <<"h">>
             ELSE NatToString(hours) \o <<"h", " ">> \o NatToString(remainingMinutes) \o <<"m">>

RuntimeIdle == runtimeIn = <<>> /\ runtimeOut = <<>>

RuntimeInit ==
    /\ runtimeIn \in {<<>>} \cup {<<n>> : n \in 0..MaxMinutes}
    /\ runtimeOut = <<>>

FormatRuntimeCall ==
    /\ runtimeOut = <<>>
    /\ runtimeOut' = <<FormatRuntime(runtimeIn)>>
    /\ UNCHANGED <<runtimeIn, yrVars, imgVars, devVars, clockVars, debVars, thrVars,
                   dbmVars, jsonVars, stoVars, tblVars, runVars>>

(***************************************************************************)
(* formatReleaseYear                                                       *)
(*                                                                         *)
(* new Date(string) is modelled for the ISO forms YYYY-MM-DD and           *)
(* YYYY-MM-DDTHH:mm:ss.sssZ, both read as UTC, and for texts without any   *)
(* digit, which give an Invalid Date.  A Date is its number of hours since *)
(* 1970-01-01T00:00Z; getFullYear() reads it in local time.                *)
(***************************************************************************)
IsLeapYear(y) == (y % 4 = 0 /\ y % 100 # 0) \/ y % 400 = 0

DaysInMonth(y, m) ==
    IF m = 2 THEN (IF IsLeapYear(y) THEN 29 ELSE 28)
    ELSE IF m \in {4, 6, 9, 11} THEN 30 ELSE 31

\* days from 1970-01-01 to the civil date y-m-d (proleptic Gregorian calendar)
DaysFromCivil(y, m, d) ==
    LET yy  == IF m <= 2 THEN y - 1 ELSE y
        era == yy \div 400
        yoe == yy - era * 400
        mp  == IF m > 2 THEN m - 3 ELSE m + 9
        doy == (153 * mp + 2) \div 5 + d - 1
        doe == yoe * 365 + yoe \div 4 - yoe \div 100 + doy
    IN  era * 146097 + doe - 719468

\* the civil year of the day that lies `days` days after 1970-01-01
YearFromDays(days) ==
    LET z   == days + 719468
        era == z \div 146097
        doe == z - era * 146097
        yoe == (doe - doe \div 1460 + doe \div 36524 - doe \div 146096) \div 365
        doy == doe - (365 * yoe + yoe \div 4 - yoe \div 100)
        mp  == (5 * doy + 2) \div 153
        m   == IF mp < 10 THEN mp + 3 ELSE mp - 9
    IN  yoe + era * 400 + (IF m <= 2 THEN 1 ELSE 0)

AllDigits(s, i, j) == \A k \in i..j : At(s, k) \in Digits

InvalidDate == [valid |-> FALSE, hours |-> 0]

\* new Date(text)
ParseDate(s) ==
    IF ~(Len(s) \in {10, 24} /\ AllDigits(s, 1, 4) /\ s[5] = "-" /\ AllDigits(s, 6, 7)
         /\ s[8] = "-" /\ AllDigits(s, 9, 10))
    THEN InvalidDate
    ELSE LET y == DigitsVal(s, 1, 5)
             m == DigitsVal(s, 6, 8)
             d == DigitsVal(s, 9, 11)
         IN  IF ~(m \in 1..12 /\ d >= 1 /\ d <= DaysInMonth(y, m)) THEN InvalidDate
             ELSE IF Len(s) = 10 THEN [valid |-> TRUE, hours |-> DaysFromCivil(y, m, d) * 24]
             ELSE IF /\ s[11] = "T" /\ AllDigits(s, 12, 13) /\ s[14] = ":"
                     /\ AllDigits(s, 15, 16) /\ s[17] = ":" /\ AllDigits(s, 18, 19)
                     /\ s[20] = "." /\ AllDigits(s, 21, 23) /\ s[24] = "Z"
                     /\ DigitsVal(s, 12, 14) <= 23 /\ DigitsVal(s, 15, 17) <= 59
                     /\ DigitsVal(s, 18, 20) <= 59
                  THEN [valid |-> TRUE,
                        hours |-> DaysFromCivil(y, m, d) * 24 + DigitsVal(s, 12, 14)]
                  ELSE InvalidDate

\* Date.prototype.getFullYear(): the year of the local date, <<>> standing for NaN
GetFullYear(date, tz) ==
    IF ~date.valid THEN <<>> ELSE <<YearFromDays((date.hours + tz) \div 24)>>

\* try { dateObj = new Date(date); return dateObj.getFullYear().toString() }
\* catch { return 'Unknown' }: neither call throws, so the catch is never entered
FormatReleaseYear(date, tz) ==
    LET year == GetFullYear(ParseDate(date), tz)
    IN  [threw |-> FALSE,
         value |-> IF year = <<>> THEN <<"N", "a", "N">> ELSE IntToString(year[1])]

\* n written with at least `width` digits
RECURSIVE Padded(_, _)
Padded(n, width) ==
    IF width <= 1 THEN NatToString(n)
    ELSE IF Len(NatToString(n)) >= width THEN NatToString(n)
    ELSE <<"0">> \o Padded(n, width - 1)

IsoDate(y, m, d) == Padded(y, 4) \o <<"-">> \o Padded(m, 2) \o <<"-">> \o Padded(d, 2)
MidnightZ == <<"T", "0", "0", ":", "0", "0", ":", "0", "0", ".", "0", "0", "0", "Z">>

DateYears == {1900, 2023, 2024, 2050}
ValidDateTexts ==
    LET days == {IsoDate(y, mo, d) : y \in DateYears, mo \in 1..12, d \in 1..31}
        real == {t \in days : ParseDate(t).valid}
    IN  real \cup {t \o MidnightZ : t \in real}
InvalidDateTexts ==
    { <<"i", "n", "v", "a", "l", "i", "d", "-", "d", "a", "t", "e">>, <<>> }
\* -getTimezoneOffset() / 60 of the time zones in use
TzOffsets == -12..14

YearInit ==
    /\ dateIn \in ValidDateTexts \cup InvalidDateTexts
    /\ tzOffset \in TzOffsets
    /\ yearOut = <<>>

FormatReleaseYearCall ==
    /\ yearOut = <<>>
    /\ yearOut' = <<FormatReleaseYear(dateIn, tzOffset)>>
    /\ UNCHANGED <<dateIn, tzOffset, rtVars, imgVars, devVars, clockVars, debVars, thrVars,
                   dbmVars, jsonVars, stoVars, tblVars, runVars>>

YearIdle == dateIn = <<>> /\ tzOffset = 0 /\ yearOut = <<>>
(***************************************************************************)
(* getTmdbImageUrl                                                         *)
(*                                                                         *)
(* path is <<>> for null and <<text>> for a string; size is <<>> when the  *)
(* argument is omitted and <<text>> otherwise.                             *)
(***************************************************************************)
PlaceholderUrl ==
    << "/", "p", "l", "a", "c", "e", "h", "o", "l", "d", "e", "r", "-", "m", "o", "v",
       "i", "e", ".", "j", "p", "g" >>
TmdbImageBase ==
    << "h", "t", "t", "p", "s", ":", "/", "/", "i", "m", "a", "g", "e", ".", "t", "m",
       "d", "b", ".", "o", "r", "g", "/", "t", "/", "p", "/" >>
W500 == <<"w", "5", "0", "0">>
ImageSizes == { <<"w", "2", "0", "0">>, <<"w", "4", "0", "0">>, W500,
                <<"w", "7", "8", "0">>, <<"o", "r", "i", "g", "i", "n", "a", "l">> }

GetTmdbImageUrlNullOnly(path, size) ==
    IF path = <<>> THEN PlaceholderUrl
    ELSE TmdbImageBase \o (IF size = <<>> THEN W500 ELSE size[1]) \o path[1]

\* if (!path) return '/placeholder-movie.jpg'; return `https://image.tmdb.org/t/p/${size}${path}`
GetTmdbImageUrl(path, size) ==
    IF path = <<>> \/ path[1] = <<>> THEN PlaceholderUrl
    ELSE TmdbImageBase \o (IF size = <<>> THEN W500 ELSE size[1]) \o path[1]

MaxPathLen == 3
PathAlphabet == {"/", "a", "."}
ImagePaths == UNION { [1..n -> PathAlphabet] : n \in 0..MaxPathLen }

ImageInit ==
    /\ imagePath \in {<<>>} \cup {<<t>> : t \in ImagePaths}
    /\ imageSize \in {<<>>} \cup {<<z>> : z \in ImageSizes}
    /\ imageOut = <<>>

GetTmdbImageUrlCall ==
    /\ imageOut = <<>>
    /\ imageOut' = <<GetTmdbImageUrl(imagePath, imageSize)>>
    /\ UNCHANGED <<imagePath, imageSize, rtVars, yrVars, devVars, clockVars, debVars, thrVars,
                   dbmVars, jsonVars, stoVars, tblVars, runVars>>

ImageIdle == imagePath = <<>> /\ imageSize = <<>> /\ imageOut = <<>>
(***************************************************************************)
(* generateDeviceId                                                        *)
(*                                                                         *)
(* The environment is what the function reads: navigator.userAgent,        *)
(* navigator.language, screen.width, screen.height, getTimezoneOffset()    *)
(* and the text canvas.toDataURL() returns (the drawing made through the   *)
(* 2d context only changes that text; "" stands for the null of a canvas   *)
(* that cannot be serialised, which join() writes as the empty string).    *)
(* The strings of the environment are printable ASCII, so btoa accepts     *)
(* them.                                                                   *)
(***************************************************************************)
\* the characters with codes 32..126, in order; the double quote (34), the
\* backslash (92) and the backtick (96) are kept by name and occur in no string of
\* the model
PrintableAscii ==
    << " ", "!", "quote", "#", "$", "%", "&", "'", "(", ")", "*", "+", ",", "-", ".", "/",
       "0", "1", "2", "3", "4", "5", "6", "7", "8", "9", ":", ";", "<", "=", ">", "?",
       "@", "A", "B", "C", "D", "E", "F", "G", "H", "I", "J", "K", "L", "M", "N", "O",
       "P", "Q", "R", "S", "T", "U", "V", "W", "X", "Y", "Z", "[", "backslash", "]", "^", "_",
       "backtick", "a", "b", "c", "d", "e", "f", "g", "h", "i", "j", "k", "l", "m", "n", "o",
       "p", "q", "r", "s", "t", "u", "v", "w", "x", "y", "z", "{", "|", "}", "~" >>
CharCode(c) == 31 + CHOOSE i \in 1..Len(PrintableAscii) : PrintableAscii[i] = c

Base64Alphabet ==
    << "A", "B", "C", "D", "E", "F", "G", "H", "I", "J", "K", "L", "M", "N", "O", "P",
       "Q", "R", "S", "T", "U", "V", "W", "X", "Y", "Z", "a", "b", "c", "d", "e", "f",
       "g", "h", "i", "j", "k", "l", "m", "n", "o", "p", "q", "r", "s", "t", "u", "v",
       "w", "x", "y", "z", "0", "1", "2", "3", "4", "5", "6", "7", "8", "9", "+", "/" >>

\* btoa: three bytes become four characters, the last group padded with "="
RECURSIVE Btoa(_)
Btoa(s) ==
    IF s = <<>> THEN <<>>
    ELSE LET n  == Len(s)
             b1 == CharCode(s[1])
             b2 == IF n >= 2 THEN CharCode(s[2]) ELSE 0
             b3 == IF n >= 3 THEN CharCode(s[3]) ELSE 0
             c1 == Base64Alphabet[(b1 \div 4) + 1]
             c2 == Base64Alphabet[(b1 % 4) * 16 + (b2 \div 16) + 1]
             c3 == IF n >= 2 THEN Base64Alphabet[(b2 % 16) * 4 + (b3 \div 64) + 1] ELSE "="
             c4 == IF n >= 3 THEN Base64Alphabet[(b3 % 64) + 1] ELSE "="
         IN  <<c1, c2, c3, c4>> \o (IF n > 3 THEN Btoa(SubSeq(s, 4, n)) ELSE <<>>)

\* String.prototype.slice(0, end)
SliceFromStart(s, end) == SubSeq(s, 1, IF Len(s) < end THEN Len(s) ELSE end)

\* [...].join('|')
RECURSIVE JoinBar(_)
JoinBar(parts) ==
    IF parts = <<>> THEN <<>>
    ELSE IF Len(parts) = 1 THEN parts[1]
    ELSE parts[1] \o <<"|">> \o JoinBar(Tail(parts))

Fingerprint(env) ==
    JoinBar(<< env.userAgent,
               env.language,
               IntToString(env.width) \o <<"x">> \o IntToString(env.height),
               IntToString(env.timezoneOffset),
               env.canvasData >>)

DeviceIdLength == 16

\* return btoa(fingerprint).slice(0, 16)
GenerateDeviceId(env) == SliceFromStart(Btoa(Fingerprint(env)), DeviceIdLength)

UserAgents ==
    { <<>>, <<"a">>, <<"t", "e", "s", "t", "-", "a", "g", "e", "n", "t">>,
      <<"M", "o", "z", "i", "l", "l", "a", "/", "5", ".", "0", " ", "(", "X", "1", "1", ")">> }
Languages == { <<>>, <<"e", "n">>, <<"e", "n", "-", "U", "S">> }
ScreenSizes == { <<0, 0>>, <<800, 600>>, <<1920, 1080>> }
TimezoneOffsets == { -60, 0, 300 }
CanvasData ==
    { <<>>, <<"d", "a", "t", "a", ":", ",">>,
      <<"m", "o", "c", "k", "-", "c", "a", "n", "v", "a", "s", "-", "d", "a", "t", "a">>,
      <<"d", "a", "t", "a", ":", "i", "m", "a", "g", "e", "/", "p", "n", "g", ";", "b", "a", "s", "e", "6", "4", ",", "i", "V", "B", "O", "R", "w", "0", "K", "G", "g", "o">> }

DeviceEnvs ==
    { [userAgent |-> ua, language |-> l, width |-> sc[1], height |-> sc[2],
       timezoneOffset |-> tz, canvasData |-> cv] :
         ua \in UserAgents, l \in Languages, sc \in ScreenSizes,
         tz \in TimezoneOffsets, cv \in CanvasData }

DeviceInit ==
    /\ deviceEnv \in {<<env>> : env \in DeviceEnvs}
    /\ deviceOut = <<>>

GenerateDeviceIdCall ==
    /\ deviceEnv # <<>>
    /\ deviceOut = <<>>
    /\ deviceOut' = <<GenerateDeviceId(deviceEnv[1])>>
    /\ UNCHANGED <<deviceEnv, rtVars, yrVars, imgVars, clockVars, debVars, thrVars,
                   dbmVars, jsonVars, stoVars, tblVars, runVars>>

DeviceIdle == deviceEnv = <<>> /\ deviceOut = <<>>

(***************************************************************************)
(* DesignSystemTestRunner and its CLI (test-runner.ts)                     *)
(*                                                                         *)
(* The CLI constructs one runner and calls runAllTests once.  Durations,   *)
(* coverage figures and the report's summary and timestamp are left out.   *)
(***************************************************************************)
\* the categories in the order of runAllTests (lines 43-48)
TestCategories ==
    << "CSS Globals & Design Tokens", "Visual Design Validation",
       "Performance & Optimization", "Accessibility Compliance",
       "Integration Tests", "E2E Visual Tests" >>

\* What execSync gives: it throws (the command exits non-zero or cannot be run), or
\* it returns the command's output, described by what parseTestOutput looks at:
\* whether it contains '"success"', what the text matched by /\{.*\}/s parses to
\* ("none": no match; "bad": JSON.parse throws; else the truth of its `success`),
\* whether it contains 'passed' and 'failed', and whether its lower-case form
\* contains 'failed' and 'error'.
ExecOutputs ==
    {o \in [successKey : BOOLEAN, json : {"none", "bad", "true", "false"},
            passedWord : BOOLEAN, failedWord : BOOLEAN, failedAnyCase : BOOLEAN,
            errorAnyCase : BOOLEAN] :
        o.failedWord => o.failedAnyCase}
ExecThrows == [successKey |-> FALSE, json |-> "throws", passedWord |-> FALSE,
               failedWord |-> FALSE, failedAnyCase |-> FALSE, errorAnyCase |-> FALSE]
ExecOutcomes == ExecOutputs \cup {ExecThrows}

CommandFailed == "Command failed"
ParseFailed   == "Failed to parse test output"

\* parseTestOutput (lines 99-138)
ParseTestOutput(category, output) ==
    IF output.successKey
    THEN IF output.json = "bad"
         THEN [category |-> category, passed |-> FALSE, errors |-> <<ParseFailed>>]
         ELSE [category |-> category, passed |-> output.json = "true", errors |-> <<>>]
    ELSE IF output.passedWord \/ output.failedWord
         THEN [category |-> category, passed |-> ~output.failedWord, errors |-> <<>>]
         ELSE [category |-> category,
               passed |-> ~output.errorAnyCase /\ ~output.failedAnyCase, errors |-> <<>>]

\* the result runTestCategory pushes (lines 57-96)
CategoryResult(category, outcome) ==
    IF outcome = ExecThrows
    THEN [category |-> category, passed |-> FALSE, errors |-> <<CommandFailed>>]
    ELSE ParseTestOutput(category, outcome)

\* runAllTests awaits each category in turn: after a category, whatever its result,
\* the next one runs, and after the last one the report is generated
PhaseAfterStopOnFailure(done, result) ==
    IF done = Len(TestCategories) \/ ~result.passed THEN "reporting" ELSE "running"
PhaseAfter(done, result) ==
    IF done = Len(TestCategories) THEN "reporting" ELSE "running"

\* this.results.filter(r => r.passed).length
CountPassed(results) == Cardinality({i \in DOMAIN results : results[i].passed})

\* generateReport (lines 159-191): the report object
BuildReport(results) ==
    [totalTests  |-> Len(results),
     passedTests |-> CountPassed(results),
     failedTests |-> Len(results) - CountPassed(results),
     results     |-> results]

\* process.exit(report.passedTests === report.totalTests ? 0 : 1)
ExitCodeZero(report) == 0
ExitCode(report) == IF report.passedTests = report.totalTests THEN 0 ELSE 1

RunnerIdle ==
    /\ trPhase = "running"
    /\ trResults = <<>>
    /\ trReport = <<>>
    /\ trExit = <<>>

\* new DesignSystemTestRunner(); runner.runAllTests() has been called
RunnerInit == RunnerIdle

\* one runTestCategory call, from execSync to the push of its result
RunTestCategory(outcome) ==
    /\ trPhase = "running"
    /\ trExit = <<>>
    /\ LET category == TestCategories[Len(trResults) + 1]
           result   == CategoryResult(category, outcome)
       IN  /\ trResults' = Append(trResults, result)
           /\ trPhase' = PhaseAfter(Len(trResults) + 1, result)
    /\ UNCHANGED <<trReport, trExit, clockVars, debVars, thrVars, dbmVars, jsonVars, stoVars,
                   tblVars, fmtVars>>

\* generateReport: the report is built and printed, then saved; when saving throws
\* (mkdirSync / writeFileSync), runAllTests rejects
GenerateReport(saveThrows) ==
    /\ trPhase = "reporting"
    /\ trReport' = <<BuildReport(trResults)>>
    /\ trPhase' = IF saveThrows THEN "rejected" ELSE "resolved"
    /\ UNCHANGED <<trResults, trExit, clockVars, debVars, thrVars, dbmVars, jsonVars, stoVars,
                   tblVars, fmtVars>>

\* the CLI's .then / .catch (lines 266-273)
CliExit ==
    /\ trPhase \in {"resolved", "rejected"}
    /\ trExit = <<>>
    /\ trExit' = IF trPhase = "resolved" THEN <<ExitCode(trReport[1])>> ELSE <<1>>
    /\ UNCHANGED <<trPhase, trResults, trReport, clockVars, debVars, thrVars, dbmVars,
                   jsonVars, stoVars, tblVars, fmtVars>>

FormatIdle == RuntimeIdle /\ YearIdle /\ ImageIdle /\ DeviceIdle

OthersIdle ==
    /\ now = 0
    /\ DebounceIdle /\ ThrottleIdle /\ DbModuleIdle /\ JsonIdle /\ StorageIdle /\ TablesIdle
    /\ RunnerIdle

(***************************************************************************)
(* Specifications                                                          *)
(***************************************************************************)
InitDebounce == now = 0 /\ DebounceInit /\ ThrottleIdle /\ DbModuleIdle /\ JsonIdle /\ StorageIdle /\ TablesIdle
    /\ FormatIdle /\ RunnerIdle

NextDebounce ==
    \/ \E w \in Wrappers, a \in Args : DebouncedCall(w, a)
    \/ \E t \in timers : TimerFire(t)
    \/ DebounceTick

SpecDebounce == InitDebounce /\ [][NextDebounce]_vars

\* the event loop runs a timeout that is due
TimersRun == \E t \in timers : TimerFire(t)

\* Time passes, and the event loop runs the callbacks of due timeouts.
SpecDebounceLive ==
    InitDebounce /\ [][NextDebounce]_vars /\ WF_vars(DebounceTick) /\ WF_vars(TimersRun)

InitThrottle == now \in 0..MaxStart /\ ThrottleInit /\ DebounceIdle /\ DbModuleIdle /\ JsonIdle /\ StorageIdle /\ TablesIdle
    /\ FormatIdle /\ RunnerIdle

NextThrottle ==
    \/ \E w \in Wrappers, a \in Args : ThrottledCall(w, a)
    \/ ThrottleTick

SpecThrottle == InitThrottle /\ [][NextThrottle]_vars

\* Wrapper pairs: two debounce wrappers or two throttle wrappers are exercised, in
\* any interleaving of calls to the two wrappers of the pair, while the wrappers of
\* the other kind stay idle.  The wrappers are created at time 0.
InitWrapperPairs == InitDebounce \/ (now = 0 /\ InitThrottle)

NextWrapperPairs ==
    \/ \E w \in Wrappers, a \in Args : ThrottleIdle /\ DebouncedCall(w, a)
    \/ \E t \in timers : TimerFire(t)
    \/ \E w \in Wrappers, a \in Args : DebounceIdle /\ ThrottledCall(w, a)
    \/ DebounceTick

SpecWrapperPairs == InitWrapperPairs /\ [][NextWrapperPairs]_vars

InitDbModule == now = 0 /\ DbModuleInit /\ DebounceIdle /\ ThrottleIdle /\ JsonIdle /\ StorageIdle /\ TablesIdle
    /\ FormatIdle /\ RunnerIdle

NextDbModule ==
    \/ EvaluateDbModule
    \/ BeforeExit
    \/ \E throws \in BOOLEAN : HealthCheckCall(throws)
    \/ \E i \in DOMAIN checks, outcome \in {"ok", "error"} : HealthCheckSettle(i, outcome)

SpecDbModule == InitDbModule /\ [][NextDbModule]_vars

NextDbStats ==
    \/ EvaluateDbModule
    \/ \E tables \in [StatsTables -> 0..MaxCount], thrower \in 0..Len(StatsQueries) :
          GetDbStatsCall(tables, thrower)
    \/ \E q \in StatsTables, outcome \in {"ok", "error"} : StatsQuerySettle(q, outcome)

SpecDbStats == InitDbModule /\ [][NextDbStats]_vars

InitJson == now = 0 /\ JsonInit /\ DebounceIdle /\ ThrottleIdle /\ DbModuleIdle /\ StorageIdle /\ TablesIdle
    /\ FormatIdle /\ RunnerIdle

NextJson == SafeJsonParseCall

SpecJson == InitJson /\ [][NextJson]_vars

InitStorage ==
    now = 0 /\ StorageInit /\ DebounceIdle /\ ThrottleIdle /\ DbModuleIdle /\ JsonIdle
    /\ TablesIdle /\ FormatIdle /\ RunnerIdle

NextStorage ==
    \/ \E key \in StorageKeys, denied \in BOOLEAN : StorageGetCall(key, denied)
    \/ \E key \in StorageKeys, value \in StorageValues, denied \in BOOLEAN :
          StorageSetCall(key, value, denied)
    \/ \E key \in StorageKeys, denied \in BOOLEAN : StorageRemoveCall(key, denied)

SpecStorage == InitStorage /\ [][NextStorage]_vars

InitTables ==
    now = 0 /\ TablesInit /\ DebounceIdle /\ ThrottleIdle /\ DbModuleIdle /\ JsonIdle
    /\ StorageIdle /\ FormatIdle /\ RunnerIdle

NextTables ==
    \/ \E m \in MovieIds : MovieCreate(m)
    \/ \E m \in MovieIds : MovieDelete(m)
    \/ \E m \in MovieIds, d \in DeviceIds, t \in VoteTypeStrings : VoteCreate(m, d, t)
    \/ \E v \in votes, m \in MovieIds, d \in DeviceIds, t \in VoteTypeStrings :
          VoteUpdate(v, m, d, t)
    \/ \E v \in votes : VoteDelete(v)

SpecTables == InitTables /\ [][NextTables]_vars

\* TrendingCache has no relation to Movie: the other tables stay empty
InitTrending == OthersIdle /\ FormatIdle

NextTrending ==
    \/ \E m \in MovieIds, p \in TrendingPeriods, k \in TrendingRanks : TrendingCreate(m, p, k)
    \/ \E m \in MovieIds, p \in TrendingPeriods, k \in TrendingRanks :
          TrendingRecompute(m, p, k)
    \/ \E r \in trending, m \in MovieIds, p \in TrendingPeriods, k \in TrendingRanks :
          TrendingUpdate(r, m, p, k)
    \/ \E r \in trending : TrendingDelete(r)

SpecTrending == InitTrending /\ [][NextTrending]_vars

InitRunner ==
    /\ now = 0
    /\ DebounceIdle /\ ThrottleIdle /\ DbModuleIdle /\ JsonIdle /\ StorageIdle /\ TablesIdle
    /\ FormatIdle /\ RunnerInit

NextRunner ==
    \/ \E outcome \in ExecOutcomes : RunTestCategory(outcome)
    \/ \E saveThrows \in BOOLEAN : GenerateReport(saveThrows)
    \/ CliExit

SpecRunner == InitRunner /\ [][NextRunner]_vars

InitRuntime == OthersIdle /\ RuntimeInit /\ YearIdle /\ ImageIdle /\ DeviceIdle

NextRuntime == FormatRuntimeCall

SpecRuntime == InitRuntime /\ [][NextRuntime]_vars

InitReleaseYear == OthersIdle /\ YearInit /\ RuntimeIdle /\ ImageIdle /\ DeviceIdle

NextReleaseYear == FormatReleaseYearCall

SpecReleaseYear == InitReleaseYear /\ [][NextReleaseYear]_vars

InitImageUrl == OthersIdle /\ ImageInit /\ RuntimeIdle /\ YearIdle /\ DeviceIdle

NextImageUrl == GetTmdbImageUrlCall

SpecImageUrl == InitImageUrl /\ [][NextImageUrl]_vars

InitDeviceId == OthersIdle /\ DeviceInit /\ RuntimeIdle /\ YearIdle /\ ImageIdle

NextDeviceId == GenerateDeviceIdCall

SpecDeviceId == InitDeviceId /\ [][NextDeviceId]_vars

(***************************************************************************)
(* Claims about debounce                                                   *)
(***************************************************************************)
\* The calls of wrapper w that end a burst: the last call so far, and every call
\* that the next call followed by delay ms or more.
BurstEnds(w) ==
    {i \in DOMAIN dbCalls[w] :
        \/ i = Len(dbCalls[w])
        \/ dbCalls[w][i + 1].at - dbCalls[w][i].at >= dbDelay[w]}

C3_Step ==
    \A w \in Wrappers :
        /\ dbCalls'[w] # dbCalls[w] => dbInvoked'[w] = dbInvoked[w]
        /\ dbInvoked'[w] # dbInvoked[w] =>
              /\ Len(dbCalls[w]) > 0
              /\ now - Last(dbCalls[w]).at >= dbDelay[w]

\* C3: a call to the wrapper never invokes func within the call, and whenever func
\* is invoked, at least delay ms have passed since the most recent wrapper call.
C3_NeverEarly == [][C3_Step]_vars

\* func has run for a wrapper that was called three times, the last call later
\* than the first.
C3_Witness ==
    \E w \in Wrappers :
        /\ Len(dbCalls[w]) = 3
        /\ dbCalls[w][1].at < dbCalls[w][3].at
        /\ Len(dbInvoked[w]) >= 1
        /\ Last(dbInvoked[w]).call = 3

(***************************************************************************)
(* Claims about throttle                                                   *)
(***************************************************************************)
\* C4: the first call to a fresh throttled wrapper invokes func within that call,
\* with that call's arguments, for any delay.
C4_FirstCallRuns ==
    \A w \in Wrappers :
        Len(thCalls[w]) >= 1 =>
            /\ Len(thInvoked[w]) >= 1
            /\ thInvoked[w][1].call = 1
            /\ thInvoked[w][1].at = thCalls[w][1].at
            /\ thInvoked[w][1].args = thCalls[w][1].args

\* what C5 asks of one step
C5_Step ==
    \A w \in Wrappers :
        (thCalls'[w] # thCalls[w] /\ Len(thInvoked[w]) > 0) =>
            /\ (thInvoked'[w] # thInvoked[w]) <=> (now - Last(thInvoked[w]).at >= thDelay[w])
            /\ \A j \in 1..(Len(thInvoked'[w]) - 1) :
                  thInvoked'[w][j + 1].at - thInvoked'[w][j].at >= thDelay[w]

\* C5: once func has been invoked at time t, a later wrapper call at time t' invokes
\* func iff t' - t >= delay; so consecutive invocations are at least delay apart.
C5_Spacing == [][C5_Step]_vars

\* Invoked, then a call dropped inside the delay, then a call invoked exactly at
\* the boundary t' - t = delay.
C5_Witness ==
    \E w \in Wrappers :
        /\ Len(thCalls[w]) = 3
        /\ Len(thInvoked[w]) = 2
        /\ thInvoked[w][1].call = 1
        /\ thInvoked[w][2].call = 3
        /\ thInvoked[w][2].at - thInvoked[w][1].at = thDelay[w]
        /\ thDelay[w] > 0

(***************************************************************************)
(* Claims about the database module                                        *)
(***************************************************************************)
\* C6: outside production, every evaluation of the module in one process exports
\* the same client, and exactly one PrismaClient is constructed.
C6_SingleClient ==
    (nodeEnv # "production" /\ exported # <<>>) =>
        /\ nClients = 1
        /\ \A i \in DOMAIN exported : exported[i] = exported[1]

\* The module has been re-evaluated (hot reload) in development.
C6_Witness ==
    /\ nodeEnv = "development"
    /\ Len(exported) >= 3

\* C7: $disconnect is not called before the process emits beforeExit, and once it
\* has emitted it, $disconnect has been called on every exported client.
C7_DisconnectOnExit ==
    /\ exitEmitted = 0 => disconnects = <<>>
    /\ exitEmitted > 0 => \A i \in DOMAIN exported : exported[i] \in Range(disconnects)

\* beforeExit after two production evaluations, each with a client of its own.
C7_Witness ==
    /\ exitEmitted = 1
    /\ Len(exported) >= 2
    /\ exported[1] # exported[2]
    /\ exported[2] \in Range(disconnects)

\* C8: healthCheck() never rejects; it resolves to true when the probe succeeded and
\* to false when it failed in any way, after exactly one query attempt.
C8_HealthBoolean ==
    \A i \in DOMAIN checks :
        /\ checks[i].state \in {"pending", "resolved"}
        /\ checks[i].state = "resolved" =>
              /\ checks[i].value \in BOOLEAN
              /\ checks[i].value <=> (checks[i].outcome = "ok")
        /\ checks[i].queries = 1

\* One health check resolved true and another resolved false on a driver error.
C8_Witness ==
    /\ Len(checks) >= 2
    /\ \E i, j \in DOMAIN checks :
          /\ checks[i].state = "resolved" /\ checks[i].outcome = "ok" /\ checks[i].value
          /\ checks[j].state = "resolved" /\ checks[j].outcome = "error" /\ ~checks[j].value

(***************************************************************************)
(* Claims about safeJsonParse                                              *)
(***************************************************************************)
\* C9: safeJsonParse never throws; it returns the fallback when JSON.parse fails and
\* the parsed value otherwise, also when that value is null, false, 0 or "".
C9_FallbackOnlyOnFailure ==
    jsonOut # <<>> =>
        LET r == jsonOut[1]
            p == JsonParse(jsonIn)
        IN  /\ ~r.threw
            /\ ~p.ok => r.value = jsonFallback
            /\ p.ok => r.value = p.v
            /\ jsonIn = <<"n", "u", "l", "l">> => r.value = NullV
            /\ jsonIn = <<"f", "a", "l", "s", "e">> => r.value = BoolV(FALSE)
            /\ jsonIn = <<"0">> => r.value = NumV(<<1, 0, 0>>)
            /\ jsonIn = <<"\"", "\"">> => r.value = StrV(<<>>)
            /\ jsonIn \in {<<>>, <<"n", "u", "l">>, <<"[", ",", "]">>, <<"0", "0">>}
                  => r.value = jsonFallback

\* A text that parses to a falsy value was returned as parsed, not as the fallback.
C9_Witness ==
    /\ jsonOut # <<>>
    /\ JsonParse(jsonIn).ok
    /\ Falsy(jsonOut[1].value)
    /\ jsonOut[1].value # jsonFallback
    /\ ~Falsy(jsonFallback)

(***************************************************************************)
(* Claims about storage                                                    *)
(***************************************************************************)
\* C10: whatever the key, the value and the failure of localStorage, storage.get,
\* storage.set and storage.remove never throw; storage.get returns null when
\* localStorage fails and the stored item otherwise.
C10_StorageNeverThrows ==
    storageLast.op # "none" =>
        /\ ~storageLast.threw
        /\ (storageLast.op = "get" /\ storageLast.failed) => storageLast.result = NoItem
        /\ (storageLast.op = "get" /\ ~storageLast.failed /\ isBrowser)
              => storageLast.result = storageLast.before

\* In a browser: a set that hit the quota returned normally and stored nothing.
C10_Witness ==
    /\ isBrowser
    /\ storageLast.op = "set"
    /\ storageLast.failed
    /\ storageLast.before = NoItem
    /\ localStorage[storageLast.key] = NoItem
    /\ StoredCount(localStorage) = StorageQuota

(***************************************************************************)
(* Claims about the persisted data model                                   *)
(***************************************************************************)
VoteUnique ==
    \A v1, v2 \in votes :
        (v1.movieId = v2.movieId /\ v1.deviceId = v2.deviceId) => v1 = v2

\* a write that would give some other row's (movieId, deviceId) to a vote
DuplicateAttempt ==
    /\ tableLast'.op \in {"voteCreate", "voteUpdate"}
    /\ \E v \in votes : /\ v.id # tableLast'.id
                        /\ v.movieId = tableLast'.movieId
                        /\ v.deviceId = tableLast'.deviceId

\* C1: after any sequence of vote insertions, updates and deletions no two Vote rows
\* share a (movieId, deviceId) pair, and an attempt to record a second vote for a
\* movie by a device that already voted on it is rejected and changes no stored vote.
C1_OneVotePerDevicePerMovie ==
    /\ []VoteUnique
    /\ [][DuplicateAttempt => (~tableLast'.ok /\ votes' = votes)]_vars

\* Two devices have voted on one movie and a second vote by one of them was refused.
C1_Witness ==
    /\ tableLast.op = "voteCreate"
    /\ ~tableLast.ok
    /\ tableLast.movieId \in movies
    /\ Cardinality({v \in votes : v.movieId = tableLast.movieId}) = 2
    /\ \E v \in votes : v.movieId = tableLast.movieId /\ v.deviceId = tableLast.deviceId

(***************************************************************************)
(* Claims about formatRuntime                                              *)
(***************************************************************************)
\* C11: formatRuntime returns 'Unknown' for null / undefined, and for every integer
\* minutes >= 1 with h = floor(minutes / 60), m = minutes mod 60: m 'm' when h = 0,
\* h 'h' when m = 0, and h 'h ' m 'm' otherwise (125 -> '2h 5m', 120 -> '2h',
\* 45 -> '45m').
C11_RuntimeFormat ==
    runtimeOut # <<>> =>
        LET out == runtimeOut[1] IN
        /\ runtimeIn = <<>> => out = UnknownStr
        /\ (runtimeIn # <<>> /\ runtimeIn[1] >= 1) =>
              LET h == runtimeIn[1] \div 60
                  m == runtimeIn[1] % 60
              IN  /\ h = 0 => out = NatToString(m) \o <<"m">>
                  /\ (h # 0 /\ m = 0) => out = NatToString(h) \o <<"h">>
                  /\ (h # 0 /\ m # 0) =>
                        out = NatToString(h) \o <<"h", " ">> \o NatToString(m) \o <<"m">>
        /\ runtimeIn = <<125>> => out = <<"2", "h", " ", "5", "m">>
        /\ runtimeIn = <<120>> => out = <<"2", "h">>
        /\ runtimeIn = <<45>> => out = <<"4", "5", "m">>

\* 125 minutes have been formatted.
C11_Witness == runtimeIn = <<125>> /\ runtimeOut = <<<<"2", "h", " ", "5", "m">>>>

\* C12: formatRuntime(0) returns '0m', not the 'Unknown' of a missing runtime.
C12_ZeroRuntime ==
    (runtimeOut # <<>> /\ runtimeIn = <<0>>) => runtimeOut[1] = <<"0", "m">>

(***************************************************************************)
(* Claims about formatReleaseYear                                          *)
(***************************************************************************)
\* C13: formatReleaseYear returns 'Unknown' for every string that does not parse to
\* a valid date, such as 'invalid-date' and the empty string.
C13_UnknownForInvalid ==
    (yearOut # <<>> /\ ~ParseDate(dateIn).valid) =>
        (~yearOut[1].threw /\ yearOut[1].value = UnknownStr)

\* C14: for every valid date given as 'YYYY-MM-DD' or 'YYYY-MM-DDT00:00:00.000Z',
\* formatReleaseYear returns the 'YYYY' of the input, whatever the local time zone.
C14_YearOfInput ==
    (yearOut # <<>> /\ ParseDate(dateIn).valid) =>
        (~yearOut[1].threw /\ yearOut[1].value = SubSeq(dateIn, 1, 4))

(***************************************************************************)
(* Claims about getTmdbImageUrl                                            *)
(***************************************************************************)
\* C15: getTmdbImageUrl returns '/placeholder-movie.jpg' exactly when path is null or
\* the empty string; otherwise the result is 'https://image.tmdb.org/t/p/', then the
\* size ('w500' when omitted), then the path.
C15_ImageUrl ==
    imageOut # <<>> =>
        LET out   == imageOut[1]
            empty == imagePath = <<>> \/ imagePath[1] = <<>>
            size  == IF imageSize = <<>> THEN <<"w", "5", "0", "0">> ELSE imageSize[1]
            n     == Len(TmdbImageBase)
        IN  /\ (out = PlaceholderUrl) <=> empty
            /\ ~empty =>
                 /\ Len(out) = n + Len(size) + Len(imagePath[1])
                 /\ SubSeq(out, 1, n) = TmdbImageBase
                 /\ SubSeq(out, n + 1, n + Len(size)) = size
                 /\ SubSeq(out, n + Len(size) + 1, Len(out)) = imagePath[1]

C15_Witness ==
    /\ imagePath = << <<"/", "a">> >>
    /\ imageSize = <<>>
    /\ imageOut = << TmdbImageBase \o <<"w", "5", "0", "0", "/", "a">> >>

(***************************************************************************)
(* Claims about generateDeviceId                                           *)
(***************************************************************************)
\* C16: generateDeviceId returns a string of exactly 16 characters for every user
\* agent, language, screen size, time-zone offset and canvas data, the empty ones
\* included.
C16_SixteenChars == deviceOut # <<>> => Len(deviceOut[1]) = 16

(***************************************************************************)
(* Claims about the persisted data model                                   *)
(***************************************************************************)
\* C18: in every reachable state every Vote refers to an existing Movie: deleting a
\* Movie deletes the votes on it, so no vote is left referencing a deleted movie.
C18_VotesReferToMovies == \A v \in votes : v.movieId \in movies

\* Two votes were cast, then the movie of one of them was deleted and the vote went
\* with it.
C18_Witness ==
    /\ tableLast.op = "movieDelete"
    /\ tableOps = 3
    /\ nextVoteId = 3
    /\ Cardinality(votes) = 1
    /\ tableLast.movieId \notin movies

\* C19: in every reachable state no two TrendingCache rows share a (movieId, period)
\* pair; recomputing a (movie, period) that already has a row creates no second row.
C19_TrendingUnique ==
    \A r1, r2 \in trending :
        (r1.movieId = r2.movieId /\ r1.period = r2.period) => r1 = r2

\* A row was written and then recomputed with another rank: still one row.
C19_Witness ==
    /\ tableLast.op = "trendingRecompute"
    /\ tableOps = 2
    /\ Cardinality(trending) = 1
    /\ \E r \in trending : r.id = tableLast.id /\ r.rank = 2

\* C20: every stored Vote has a voteType among 'upvote', 'skip' and 'not_seen'.
C20_VoteTypeValid == \A v \in votes : v.voteType \in VOTE_TYPES

(***************************************************************************)
(* Further claims about debounce and throttle                              *)
(***************************************************************************)
\* when func is invoked, it is for the most recent wrapper call, with its arguments
C21_Step ==
    \A w \in Wrappers :
        dbInvoked'[w] # dbInvoked[w] =>
            /\ Len(dbCalls[w]) > 0
            /\ Last(dbInvoked'[w]).call = Len(dbCalls[w])
            /\ Last(dbInvoked'[w]).args = Last(dbCalls[w]).args

\* the latest call of wrapper w has a delay that ends before the clock stops
C21_Owed(w) ==
    /\ Len(dbCalls[w]) > 0
    /\ Last(dbCalls[w]).at + dbDelay[w] <= MaxTime

C21_Served(w) ==
    \E j \in DOMAIN dbInvoked[w] :
        /\ dbInvoked[w][j].call = Len(dbCalls[w])
        /\ dbInvoked[w][j].args = Last(dbCalls[w]).args

\* C21: the invocation that ends a burst receives the arguments of the most recent
\* wrapper call, never those of an earlier cancelled call; and as long as no
\* further wrapper call is made, the pending invocation eventually happens: again
\* and again every wrapper's latest call has been served.
C21_LatestArgsEventually ==
    /\ [][C21_Step]_vars
    /\ []<>(\A w \in Wrappers : C21_Owed(w) => C21_Served(w))

\* A call with "x" was cancelled by a call with "y" inside the delay, and func ran
\* once, with "y".
C21_Witness ==
    \E w \in Wrappers :
        /\ Len(dbCalls[w]) = 2
        /\ dbCalls[w][1].args = "x"
        /\ dbCalls[w][2].args = "y"
        /\ dbCalls[w][2].at - dbCalls[w][1].at < dbDelay[w]
        /\ Len(dbInvoked[w]) = 1
        /\ dbInvoked[w][1].args = "y"

\* every invocation of func was made within the wrapper call it belongs to
C22_Synchronous ==
    \A w \in Wrappers :
        /\ Len(thInvoked[w]) <= Len(thCalls[w])
        /\ \A j \in DOMAIN thInvoked[w] :
              /\ thInvoked[w][j].call \in DOMAIN thCalls[w]
              /\ thInvoked[w][j].at = thCalls[w][thInvoked[w][j].call].at
              /\ thInvoked[w][j].args = thCalls[w][thInvoked[w][j].call].args
        /\ \A j, k \in DOMAIN thInvoked[w] :
              thInvoked[w][j].call = thInvoked[w][k].call => j = k

C22_Step ==
    \A w \in Wrappers :
        \* func runs only inside a wrapper call, for that call
        /\ thInvoked'[w] # thInvoked[w] =>
              /\ Len(thCalls'[w]) = Len(thCalls[w]) + 1
              /\ thInvoked'[w] = Append(thInvoked[w],
                    [at |-> now, args |-> Last(thCalls'[w]).args, call |-> Len(thCalls'[w])])
              /\ lastCall'[w] = now
        \* a dropped call, and the passing of time, leave lastCall alone
        /\ thInvoked'[w] = thInvoked[w] => lastCall'[w] = lastCall[w]

\* C22: a throttled call that is dropped is never executed later: func is invoked
\* only synchronously inside a wrapper call, never more often than the wrapper was
\* called, and a dropped call does not move the time the next delay is measured from.
C22_NoTrailingCall == []C22_Synchronous /\ [][C22_Step]_vars

\* A call ran, the next one was dropped inside the delay, and the delay measured
\* from the dropped call has passed without func running again.
C22_Witness ==
    \E w \in Wrappers :
        /\ Len(thCalls[w]) = 2
        /\ Len(thInvoked[w]) = 1
        /\ thInvoked[w][1].call = 1
        /\ thCalls[w][2].at > thCalls[w][1].at
        /\ lastCall[w] = thCalls[w][1].at
        /\ now >= thCalls[w][2].at + thDelay[w]

\* the pending timeouts armed by wrapper w
TimersOf(ts, w) == {t \in ts : t.w = w}

\* no wrapper's owed invocation is missing, and a throttle wrapper's lastCall is the
\* time of its own last invocation
C23_OwnState ==
    \A w \in Wrappers :
        /\ Len(dbCalls[w]) > 0 =>
              \/ \E t \in timers : /\ t.w = w
                                   /\ t.id = timeoutId[w]
                                   /\ t.call = Len(dbCalls[w])
                                   /\ t.due = Last(dbCalls[w]).at + dbDelay[w]
              \/ \E j \in DOMAIN dbInvoked[w] :
                    /\ dbInvoked[w][j].call = Len(dbCalls[w])
                    /\ dbInvoked[w][j].at = Last(dbCalls[w]).at + dbDelay[w]
        /\ lastCall[w] = IF thInvoked[w] = <<>> THEN 0 ELSE Last(thInvoked[w]).at

\* a call to one wrapper changes nothing of the other wrapper
C23_Step ==
    \A w, v \in Wrappers :
        w # v =>
            /\ dbCalls'[w] # dbCalls[w] =>
                  /\ TimersOf(timers', v) = TimersOf(timers, v)
                  /\ timeoutId'[v] = timeoutId[v]
                  /\ dbInvoked'[v] = dbInvoked[v]
            /\ thCalls'[w] # thCalls[w] =>
                  /\ lastCall'[v] = lastCall[v]
                  /\ thInvoked'[v] = thInvoked[v]

\* C23: each wrapper made by debounce or throttle has its own timer / last-call
\* state: a call to one wrapper never cancels, delays or suppresses an invocation
\* owed by another wrapper.
C23_IndependentWrappers == []C23_OwnState /\ [][C23_Step]_vars

\* The other debounce wrapper was called while an invocation was owed, and the owed
\* invocation happened on time.
C23_Witness ==
    \E w, v \in Wrappers :
        /\ w # v
        /\ Len(dbCalls[w]) = 1
        /\ Len(dbCalls[v]) >= 1
        /\ dbCalls[v][1].at > dbCalls[w][1].at
        /\ dbCalls[v][1].at < dbCalls[w][1].at + dbDelay[w]
        /\ Len(dbInvoked[w]) = 1
        /\ dbInvoked[w][1].at = dbCalls[w][1].at + dbDelay[w]

(***************************************************************************)
(* Further claims about the database module                                *)
(***************************************************************************)
\* C24: in production, evaluating the database module never writes
\* globalThis.prisma: no step changes the global slot, which therefore holds a
\* client only outside production.
C24_NoGlobalInProduction ==
    /\ [](globalPrisma # Undefined => nodeEnv # "production")
    /\ [][nodeEnv = "production" => globalPrisma' = globalPrisma]_vars

\* Two production evaluations, each with a client of its own, and nothing cached.
C24_Witness ==
    /\ nodeEnv = "production"
    /\ Len(exported) = 2
    /\ nClients = 2
    /\ globalPrisma = Undefined

\* C25: however often the module is evaluated, at most one beforeExit handler is
\* registered, and $disconnect is called at most once on any client.
C25_SingleExitHandler ==
    /\ Len(exitHandlers) <= 1
    /\ \A i, j \in DOMAIN disconnects : disconnects[i] = disconnects[j] => i = j

\* C26: getDbStats() issues its three count queries concurrently and is
\* all-or-nothing: it resolves exactly when all three succeeded, to an object whose
\* fields hold the counts of their own tables whatever the order of completion; it
\* rejects as soon as one query fails, and never gives a partial result.
C26_AllOrNothing ==
    /\ stats.state = "pending" => \A q \in StatsTables : stats.queries[q] \in {"pending", "ok"}
    /\ stats.state = "resolved" <=>
          (stats.queries # NoStatsCall.queries /\ \A q \in StatsTables : stats.queries[q] = "ok")
    /\ stats.state = "resolved" =>
          stats.result = <<[movies |-> stats.tables["movie"],
                            votes  |-> stats.tables["vote"],
                            genres |-> stats.tables["genre"]]>>
    /\ (\E q \in StatsTables : stats.queries[q] = "error") => stats.state = "rejected"
    /\ stats.state # "resolved" => stats.result = <<>>
    \* concurrency: all three queries are in flight before the first one settles
    /\ (stats.state # "none" /\ stats.order = <<>> /\ stats.state # "rejected") =>
          \A q \in StatsTables : stats.queries[q] = "pending"

\* The queries completed in the reverse of their order in the array, the tables
\* holding different numbers of rows.
C26_Witness ==
    /\ stats.state = "resolved"
    /\ stats.order = <<"genre", "vote", "movie">>
    /\ stats.tables["movie"] = 2 /\ stats.tables["vote"] = 1 /\ stats.tables["genre"] = 0
    /\ stats.result = <<[movies |-> 2, votes |-> 1, genres |-> 0]>>

(***************************************************************************)
(* Further claims about storage                                            *)
(***************************************************************************)
\* what C27 asks of one storage call made outside a browser
C27_Step ==
    (~isBrowser /\ storageOps' # storageOps) =>
        /\ localStorage' = localStorage
        /\ ~storageLast'.threw
        /\ storageLast'.result = IF storageLast'.op = "get" THEN NoItem ELSE "undefined"

\* C27: outside a browser storage.get returns null and storage.set and
\* storage.remove return without touching localStorage: what is stored is neither
\* read nor changed.
C27_NoAccessOutsideBrowser == [][C27_Step]_vars

\* Outside a browser: a get of a key that holds an item returned null, and the item
\* is still there.
C27_Witness ==
    /\ ~isBrowser
    /\ storageLast.op = "get"
    /\ ~storageLast.failed
    /\ storageLast.before # NoItem
    /\ storageLast.result = NoItem
    /\ localStorage[storageLast.key] = storageLast.before

(***************************************************************************)
(* Claims about the design system test runner                              *)
(***************************************************************************)
\* one result per category run so far, in the declared order
C28_OnePerCategory ==
    /\ Len(trResults) <= Len(TestCategories)
    /\ \A i \in DOMAIN trResults : trResults[i].category = TestCategories[i]
    /\ \A i \in DOMAIN trResults :
          trResults[i].errors # <<>> => ~trResults[i].passed
    /\ trPhase # "running" => Len(trResults) = Len(TestCategories)
    /\ trReport # <<>> =>
          /\ trReport[1].totalTests = 6
          /\ trReport[1].results = trResults

\* a category is run after the previous one has been recorded, and a failed one is
\* recorded with its error message without ending the run
C28_Step ==
    trResults' # trResults =>
        /\ Len(trResults') = Len(trResults) + 1
        /\ SubSeq(trResults', 1, Len(trResults)) = trResults
        /\ (\E i \in DOMAIN trResults : ~trResults[i].passed) =>
              Last(trResults').category = TestCategories[Len(trResults) + 1]
        /\ Len(trResults') < Len(TestCategories) => trPhase' = "running"

C29_ReportCounts ==
    /\ trReport # <<>> =>
          LET r == trReport[1] IN
          /\ r.passedTests + r.failedTests = r.totalTests
          /\ r.totalTests = Len(r.results)
          /\ r.passedTests = Cardinality({i \in DOMAIN r.results : r.results[i].passed = TRUE})
    /\ trExit # <<>> =>
          /\ trExit[1] \in {0, 1}
          /\ trExit[1] = 0 <=>
                /\ trPhase = "resolved"
                /\ \A i \in DOMAIN trResults : trResults[i].passed

\* Five categories passed and one failed: the CLI exited with 1.
C29_Witness ==
    /\ trExit = <<1>>
    /\ trPhase = "resolved"
    /\ trReport[1].passedTests = 5
    /\ trReport[1].failedTests = 1

====
